---- MODULE Spec2Model ----
(* Wildfire spread and drone-swarm suppression: the Environment and          *)
(* DroneSwarm classes and the initSim / step_sim handlers of reactcode.jsx.  *)
(* Real numbers (Math.random() results, elevations, positions, velocities,   *)
(* fitness values, the simulation clock) are fixed-point integers in         *)
(* thousandths: 1.0 is 1000.                                                 *)
EXTENDS Integers, Sequences, FiniteSets, TLC

\* ---------------------------------------------------------------- constants
DRONE_SPEED == 10
CELL_SIZE == 10
REFILL_TIME == 30
EXTINGUISH_TIME == 40
MAX_WATER_CAPACITY == 3
\* Math.min over no water cell stays at Infinity (larger than any fitness).
Infinity == 2000000000
\* useState defaults of the PSO coefficients, in thousandths.
omega == 700
phiP == 1500
phiG == 1500

\* ------------------------------------------------------------------- bounds
Width == 3
Height == 2
NumDrones == 1
\* step_sim is cut off once stepCount reaches MaxStep.
MaxStep == 42

\* Values Math.random() takes, in thousandths, at each kind of call site.
\* Probability tests and integer picks: one low and one middle value.
RandVals == {0, 500}
\* Start cell of a water blob.
StartDraws == {500, 600}
\* Step count and moves of a water blob's walk (the walker stays).
WalkDraws == {500}
\* Initial drone position and velocity.
PosDraws == {500}
VelDraws == {0, 500}
\* r_p and r_g of the velocity update.
PsoDraws == {500}

\* ------------------------------------------------------------------ helpers
Coords == (0 .. Width - 1) \X (0 .. Height - 1)
InBounds(x, y) == x >= 0 /\ x < Width /\ y >= 0 /\ y < Height
Min(a, b) == IF a < b THEN a ELSE b
Max(a, b) == IF a > b THEN a ELSE b
\* Math.floor(n / d) for d > 0.
Floor(n, d) == n \div d
\* n / d rounded toward zero: the fixed-point value of a real quotient.
Trunc(n, d) == IF n >= 0 THEN n \div d ELSE -((-n) \div d)
\* Math.sqrt(n) in thousandths, for the squared distances of the grid.
SqrtMilli ==
  [n \in 0 .. (Width + 1) * (Width + 1) + (Height + 1) * (Height + 1) |->
     CHOOSE s \in 0 .. 1000 * (Width + Height + 2) :
       s * s <= n * 1000000 /\ (s + 1) * (s + 1) > n * 1000000]
\* Mutant of ScanOrder: both loops run downwards, from 1 to -1.
ScanOrderReversed ==
  << <<1, 1>>, <<1, 0>>, <<1, -1>>, <<0, 1>>, <<0, 0>>, <<0, -1>>,
     <<-1, 1>>, <<-1, 0>>, <<-1, -1>> >>
\* The offsets of a 3x3 scan in the order of "for dx ... for dy ...".
ScanOrder ==
  << <<-1, -1>>, <<-1, 0>>, <<-1, 1>>, <<0, -1>>, <<0, 0>>, <<0, 1>>,
     <<1, -1>>, <<1, 0>>, <<1, 1>> >>
SeqToSet(s) == {s[i] : i \in 1 .. Len(s)}

\* --------------------------------------------------------------------- Cell
\* Math.random() * 100 of the cell at (x, y): one fixed stream of draws,
\* so that neighbouring cells differ by up to 90 in elevation.
ElevationAt(x, y) == (((7 * x + 3 * y) * 130) % 1000) * 100
Cell(elevation) ==
  [tree |-> TRUE, fire |-> FALSE, burnt |-> FALSE, water |-> FALSE,
   elevation |-> elevation, fire_cooldown |-> 0,
   extinguished_by_drone |-> FALSE]
wind == <<1, 0>>

\* -------------------------------------------------------------- Environment
\* new Environment(width, height): the constructor tests nothing and builds
\* height rows of width cells, none at all when either is 0.
Environment(width, height) ==
  [width |-> width, height |-> height,
   grid |-> [c \in (0 .. width - 1) \X (0 .. height - 1) |->
               Cell(ElevationAt(c[1], c[2]))],
   wind |-> wind, active_fires |-> << >>]
NewGrid == Environment(Width, Height).grid

\* One blob's walk.  A walker is <<marked, x, y>>: the in-bounds cells the
\* walk has set to water so far and where it stands.  WalkStep marks the cell
\* under each walker and moves it by every pair of move draws.
WalkStep(walkers) ==
  UNION { LET x == w[2]
              y == w[3]
              marked == IF InBounds(x, y) THEN w[1] \cup {<<x, y>>} ELSE w[1]
          IN  { <<marked, x + Floor(rx * 3, 1000) - 1,
                          y + Floor(ry * 3, 1000) - 1>>
                : <<rx, ry>> \in WalkDraws \X WalkDraws }
          : w \in walkers }

RECURSIVE WalkAll(_, _)
WalkAll(walkers, steps) ==
  IF steps = 0 THEN walkers ELSE WalkAll(WalkStep(walkers), steps - 1)

\* The sets of cells one blob can set to water: every start cell, step count
\* and stream of moves.
BlobMarks ==
  UNION { { w[1] : w \in WalkAll({ << {}, Floor(rcx * (Width - 8), 1000) + 4,
                                          Floor(rcy * (Height - 8), 1000) + 4 >> },
                                 Floor(rs * 15, 1000) + 15) }
          : <<rcx, rcy, rs>> \in StartDraws \X StartDraws \X WalkDraws }

\* Mutant of MarkWater: the tree flag of a water cell is left set.
MarkWaterKeepTree(g, marked) ==
  [c \in Coords |-> IF c \in marked THEN [g[c] EXCEPT !.water = TRUE]
                    ELSE g[c]]

\* grid[y][x].water = true; grid[y][x].tree = false, for the cells of marked.
MarkWater(g, marked) ==
  [c \in Coords |-> IF c \in marked
                    THEN [g[c] EXCEPT !.water = TRUE, !.tree = FALSE]
                    ELSE g[c]]

\* The grids left by one more blob on each grid of the set grids.
AddBlob(grids) == { MarkWater(g, m) : <<g, m>> \in grids \X BlobMarks }

RECURSIVE AddBlobs(_, _)
AddBlobs(grids, blobs) ==
  IF blobs = 0 THEN grids ELSE AddBlobs(AddBlob(grids), blobs - 1)

\* add_water_blobs(count): the grids it can leave, one per stream of draws.
add_water_blobs(g, count) ==
  UNION { AddBlobs({g}, Floor(r * (count - 1), 1000) + 2) : r \in RandVals }

\* Mutant of Eligible: a burnt cell that is still a tree can be lit again.
EligibleThoughBurnt(cell) == cell.tree /\ ~cell.fire /\ ~cell.water

Eligible(cell) == cell.tree /\ ~cell.fire /\ ~cell.burnt /\ ~cell.water

\* Mutant of ignite: a burnt cell that is still a tree is lit like a fresh
\* one.
igniteBurntTree(e, x, y) ==
  IF InBounds(x, y) /\ e.grid[<<x, y>>].tree /\ ~e.grid[<<x, y>>].fire
     /\ ~e.grid[<<x, y>>].water
  THEN [grid |-> [e.grid EXCEPT ![<<x, y>>].fire = TRUE,
                                ![<<x, y>>].fire_cooldown = 3],
        active_fires |-> Append(e.active_fires, <<x, y>>)]
  ELSE e

\* ignite(x, y) on the environment e = [grid, active_fires].
ignite(e, x, y) ==
  IF InBounds(x, y) /\ Eligible(e.grid[<<x, y>>])
  THEN [grid |-> [e.grid EXCEPT ![<<x, y>>].fire = TRUE,
                                ![<<x, y>>].fire_cooldown = 3],
        active_fires |-> Append(e.active_fires, <<x, y>>)]
  ELSE e
\* Math.min(Math.max(base_prob, 0.005), 0.4) in millionths, for the spread
\* from cell to its neighbour ncell in direction (dx, dy).
SpreadProb(cell, ncell, dx, dy) ==
  LET elev_diff == ncell.elevation - cell.elevation
      base_prob == 50000 + elev_diff * 3
                   + (IF dx = wind[1] /\ dy = wind[2] THEN 80000 ELSE 0)
  IN  Min(Max(base_prob, 5000), 400000)

\* The neighbour loop of spread_fire for the burning cell at (x, y), from
\* offset k of the scan on.  st = [grid, new_fires]; a set of such records,
\* one per stream of draws.
RECURSIVE NeighbourPass(_, _, _, _)
NeighbourPass(st, x, y, k) ==
  IF k > Len(ScanOrder) THEN {st}
  ELSE LET dx == ScanOrder[k][1]
           dy == ScanOrder[k][2]
           nx == x + dx
           ny == y + dy
       IN  IF (dx = 0 /\ dy = 0) \/ ~InBounds(nx, ny)
              \/ ~Eligible(st.grid[<<nx, ny>>])
           THEN NeighbourPass(st, x, y, k + 1)
           ELSE UNION {
                  IF r * 1000 < SpreadProb(st.grid[<<x, y>>],
                                           st.grid[<<nx, ny>>], dx, dy)
                  THEN NeighbourPass(
                         [grid |-> [st.grid EXCEPT
                                      ![<<nx, ny>>].fire = TRUE,
                                      ![<<nx, ny>>].fire_cooldown = 2],
                          new_fires |-> Append(st.new_fires, <<nx, ny>>)],
                         x, y, k + 1)
                  ELSE NeighbourPass(st, x, y, k + 1)
                  : r \in RandVals }

\* Mutant of SpreadLoop: the burnout branch lacks its continue, so the cell
\* goes on to the neighbour loop and to still_active.
RECURSIVE SpreadLoopBurnoutGoesOn(_, _, _)
SpreadLoopBurnoutGoesOn(st, af, k) ==
  IF k > Len(af) THEN {st}
  ELSE LET xy == af[k]
           c0 == st.grid[xy]
           cd == IF c0.fire_cooldown > 0 THEN c0.fire_cooldown - 1
                 ELSE c0.fire_cooldown
           g1 == [st.grid EXCEPT ![xy].fire_cooldown = cd]
           g2 == [g1 EXCEPT ![xy].fire = FALSE, ![xy].burnt = TRUE,
                            ![xy].extinguished_by_drone = FALSE]
           keep(s, g, nf) ==
             [s EXCEPT !.grid = g, !.new_fires = nf,
                       !.still_active = Append(st.still_active, xy)]
           spread(s, g, nf) ==
             [keep(s, g, nf) EXCEPT !.spreaders = @ \cup {xy}]
           go(s, g) ==
             IF cd = 0
             THEN UNION { SpreadLoopBurnoutGoesOn(
                            spread(s, [n.grid EXCEPT ![xy].fire_cooldown = 2],
                                   n.new_fires), af, k + 1)
                          : n \in NeighbourPass(
                                    [grid |-> g, new_fires |-> st.new_fires],
                                    xy[1], xy[2], 1) }
             ELSE SpreadLoopBurnoutGoesOn(keep(s, g, st.new_fires), af, k + 1)
       IN  UNION {
             IF r < 30
             THEN go([st EXCEPT !.burnouts = @ \cup {xy}], g2)
             ELSE go(st, g1)
             : r \in RandVals }

\* Mutant of SpreadLoop: the neighbour loop runs while the cooldown is at
\* most 1, one advance early.
RECURSIVE SpreadLoopOneEarly(_, _, _)
SpreadLoopOneEarly(st, af, k) ==
  IF k > Len(af) THEN {st}
  ELSE LET xy == af[k]
           c0 == st.grid[xy]
           cd == IF c0.fire_cooldown > 0 THEN c0.fire_cooldown - 1
                 ELSE c0.fire_cooldown
           g1 == [st.grid EXCEPT ![xy].fire_cooldown = cd]
           burnout == [st EXCEPT !.grid =
                         [g1 EXCEPT ![xy].fire = FALSE, ![xy].burnt = TRUE,
                                    ![xy].extinguished_by_drone = FALSE],
                                 !.burnouts = @ \cup {xy}]
           keep(g, nf) ==
             [st EXCEPT !.grid = g, !.new_fires = nf,
                        !.still_active = Append(st.still_active, xy)]
           spread(g, nf) ==
             [keep(g, nf) EXCEPT !.spreaders = @ \cup {xy}]
       IN  UNION {
             IF r < 30
             THEN SpreadLoopOneEarly(burnout, af, k + 1)
             ELSE IF cd <= 1
                  THEN UNION { SpreadLoopOneEarly(
                                 spread([n.grid EXCEPT ![xy].fire_cooldown = 2],
                                        n.new_fires), af, k + 1)
                               : n \in NeighbourPass(
                                         [grid |-> g1,
                                          new_fires |-> st.new_fires],
                                         xy[1], xy[2], 1) }
                  ELSE SpreadLoopOneEarly(keep(g1, st.new_fires), af, k + 1)
             : r \in RandVals }

\* The loop of spread_fire over active_fires af, from index k on.
\* st = [grid, new_fires, still_active, burnouts, spreaders]: burnouts are
\* the cells whose burnout draw succeeded and spreaders the cells that ran
\* the neighbour loop (both are a record of what the loop did, not data of
\* the program).
RECURSIVE SpreadLoop(_, _, _)
SpreadLoop(st, af, k) ==
  IF k > Len(af) THEN {st}
  ELSE LET xy == af[k]
           c0 == st.grid[xy]
           cd == IF c0.fire_cooldown > 0 THEN c0.fire_cooldown - 1
                 ELSE c0.fire_cooldown
           g1 == [st.grid EXCEPT ![xy].fire_cooldown = cd]
           burnout == [st EXCEPT !.grid =
                         [g1 EXCEPT ![xy].fire = FALSE, ![xy].burnt = TRUE,
                                    ![xy].extinguished_by_drone = FALSE],
                                 !.burnouts = @ \cup {xy}]
           keep(g, nf) ==
             [st EXCEPT !.grid = g, !.new_fires = nf,
                        !.still_active = Append(st.still_active, xy)]
           spread(g, nf) ==
             [keep(g, nf) EXCEPT !.spreaders = @ \cup {xy}]
       IN  UNION {
             IF r < 30
             THEN SpreadLoop(burnout, af, k + 1)
             ELSE IF cd = 0
                  THEN UNION { SpreadLoop(
                                 spread([n.grid EXCEPT ![xy].fire_cooldown = 2],
                                        n.new_fires), af, k + 1)
                               : n \in NeighbourPass(
                                         [grid |-> g1,
                                          new_fires |-> st.new_fires],
                                         xy[1], xy[2], 1) }
                  ELSE SpreadLoop(keep(g1, st.new_fires), af, k + 1)
             : r \in RandVals }

\* still_active.filter(([x, y]) => this.grid[y][x].fire)
RECURSIVE FilterFire(_, _)
FilterFire(g, s) ==
  IF s = << >> THEN << >>
  ELSE IF g[Head(s)].fire THEN << Head(s) >> \o FilterFire(g, Tail(s))
       ELSE FilterFire(g, Tail(s))

\* spread_fire(): the environments it can leave, one per stream of draws,
\* each with the burnouts and spreaders of its loop.
spread_fire(e) ==
  { [grid |-> st.grid,
     active_fires |-> FilterFire(st.grid, st.still_active) \o st.new_fires,
     burnouts |-> st.burnouts, spreaders |-> st.spreaders]
    : st \in SpreadLoop([grid |-> e.grid, new_fires |-> << >>,
                         still_active |-> << >>, burnouts |-> {},
                         spreaders |-> {}], e.active_fires, 1) }

\* Mutant of RemoveCoord: a suppressed cell stays in the list.
RemoveCoordKeepAll(s, xy) == s

\* f => !(f[0] === x && f[1] === y)
RECURSIVE RemoveCoord(_, _)
RemoveCoord(s, xy) ==
  IF s = << >> THEN << >>
  ELSE IF Head(s) = xy THEN RemoveCoord(Tail(s), xy)
       ELSE << Head(s) >> \o RemoveCoord(Tail(s), xy)

\* Mutant of extinguish_fire_at: the suppression time is charged for a call
\* on a cell that is not burning too.
ExtinguishChargeAlways(e, t, x, y, drone_pos) ==
  IF InBounds(x, y) /\ e.grid[<<x, y>>].fire
  THEN [ok |-> TRUE,
        grid |-> [e.grid EXCEPT ![<<x, y>>].fire = FALSE,
                                ![<<x, y>>].burnt = TRUE,
                                ![<<x, y>>].tree = FALSE,
                                ![<<x, y>>].fire_cooldown = 0,
                                ![<<x, y>>].extinguished_by_drone = TRUE],
        active_fires |-> RemoveCoord(e.active_fires, <<x, y>>),
        time |-> t + (SqrtMilli[(x - drone_pos[1]) * (x - drone_pos[1])
                                + (y - drone_pos[2]) * (y - drone_pos[2])]
                      * CELL_SIZE) \div DRONE_SPEED
                   + EXTINGUISH_TIME * 1000]
  ELSE [ok |-> FALSE, grid |-> e.grid, active_fires |-> e.active_fires,
        time |-> t + EXTINGUISH_TIME * 1000]

\* Mutant of extinguish_fire_at: the tree flag of the suppressed cell is
\* left set.
ExtinguishKeepTree(e, t, x, y, drone_pos) ==
  IF InBounds(x, y) /\ e.grid[<<x, y>>].fire
  THEN [ok |-> TRUE,
        grid |-> [e.grid EXCEPT ![<<x, y>>].fire = FALSE,
                                ![<<x, y>>].burnt = TRUE,
                                ![<<x, y>>].fire_cooldown = 0,
                                ![<<x, y>>].extinguished_by_drone = TRUE],
        active_fires |-> RemoveCoord(e.active_fires, <<x, y>>),
        time |-> t + (SqrtMilli[(x - drone_pos[1]) * (x - drone_pos[1])
                                + (y - drone_pos[2]) * (y - drone_pos[2])]
                      * CELL_SIZE) \div DRONE_SPEED
                   + EXTINGUISH_TIME * 1000]
  ELSE [ok |-> FALSE, grid |-> e.grid, active_fires |-> e.active_fires,
        time |-> t]

\* Mutant of extinguish_fire_at: only the travel time is charged.
ExtinguishTravelOnly(e, t, x, y, drone_pos) ==
  IF InBounds(x, y) /\ e.grid[<<x, y>>].fire
  THEN [ok |-> TRUE,
        grid |-> [e.grid EXCEPT ![<<x, y>>].fire = FALSE,
                                ![<<x, y>>].burnt = TRUE,
                                ![<<x, y>>].tree = FALSE,
                                ![<<x, y>>].fire_cooldown = 0,
                                ![<<x, y>>].extinguished_by_drone = TRUE],
        active_fires |-> RemoveCoord(e.active_fires, <<x, y>>),
        time |-> t + (SqrtMilli[(x - drone_pos[1]) * (x - drone_pos[1])
                                + (y - drone_pos[2]) * (y - drone_pos[2])]
                      * CELL_SIZE) \div DRONE_SPEED]
  ELSE [ok |-> FALSE, grid |-> e.grid, active_fires |-> e.active_fires,
        time |-> t]

\* extinguish_fire_at(x, y, drone_pos, simulation_time) on the environment
\* e with the clock t: [ok, grid, active_fires, time].  The clock is always
\* passed as the array simTimeRef.current, which is truthy.
extinguish_fire_at(e, t, x, y, drone_pos) ==
  IF InBounds(x, y) /\ e.grid[<<x, y>>].fire
  THEN LET dx == x - drone_pos[1]
           dy == y - drone_pos[2]
           distance == SqrtMilli[dx * dx + dy * dy] * CELL_SIZE
           travel_time == distance \div DRONE_SPEED
       IN  [ok |-> TRUE,
            grid |-> [e.grid EXCEPT ![<<x, y>>].fire = FALSE,
                                    ![<<x, y>>].burnt = TRUE,
                                    ![<<x, y>>].tree = FALSE,
                                    ![<<x, y>>].fire_cooldown = 0,
                                    ![<<x, y>>].extinguished_by_drone = TRUE],
            active_fires |-> RemoveCoord(e.active_fires, <<x, y>>),
            time |-> t + travel_time + EXTINGUISH_TIME * 1000]
  ELSE [ok |-> FALSE, grid |-> e.grid, active_fires |-> e.active_fires,
        time |-> t]

\* get_attraction_matrix()
get_attraction_matrix(g) ==
  [c \in Coords |-> IF g[c].fire THEN 5
                    ELSE IF g[c].burnt THEN 4
                    ELSE IF g[c].water THEN 3 ELSE 0]

\* Mutant of count_trees: every burnt cell is counted as burnt and no burnt
\* cell as saved.
count_treesAllBurnt(g) ==
  << Cardinality({c \in Coords : g[c].tree /\ ~g[c].burnt}),
     Cardinality({c \in Coords : g[c].burnt}) >>

\* count_trees(): <<saved, burnt>>
count_trees(g) ==
  << Cardinality({c \in Coords : g[c].tree}),
     Cardinality({c \in Coords : ~g[c].tree /\ g[c].burnt}) >>
\* --------------------------------------------------------------- DroneSwarm
Drones == 1 .. NumDrones
CellOf(pos) == << Floor(pos[1], 1000), Floor(pos[2], 1000) >>

\* Smallest distance (thousandths) from cell (x, y) to a cell of the set
\* cells, Infinity when there is none.
RECURSIVE MinDist(_, _, _)
MinDist(cells, x, y) ==
  IF cells = {} THEN Infinity
  ELSE LET c == CHOOSE c \in cells : TRUE
           dist == SqrtMilli[(c[1] - x) * (c[1] - x) + (c[2] - y) * (c[2] - y)]
       IN  Min(dist, MinDist(cells \ {c}, x, y))

\* Mutant of fitness: a water cell is valued like a fire cell that has water
\* under it.
fitnessWaterAsFire(g, pos) ==
  LET x == CellOf(pos)[1]
      y == CellOf(pos)[2]
      matrix == get_attraction_matrix(g)
      cell_value == matrix[<<x, y>>]
      water_positions == {c \in Coords : matrix[c] = 3}
      min_dist_water == MinDist(water_positions, x, y)
      fire_positions == {c \in Coords : matrix[c] = 5}
  IN  IF ~InBounds(x, y) THEN 1000000000
      ELSE IF cell_value = 5
           THEN (IF min_dist_water = Infinity THEN Infinity
                 ELSE -100000 + min_dist_water)
      ELSE IF cell_value = 3 THEN -100000
      ELSE IF cell_value = 4 THEN 1000000
      ELSE IF fire_positions # {} THEN MinDist(fire_positions, x, y)
      ELSE 100000

\* fitness(pos) on grid g, in thousandths.
fitness(g, pos) ==
  LET x == CellOf(pos)[1]
      y == CellOf(pos)[2]
      matrix == get_attraction_matrix(g)
      cell_value == matrix[<<x, y>>]
      water_positions == {c \in Coords : matrix[c] = 3}
      min_dist_water == MinDist(water_positions, x, y)
      fire_positions == {c \in Coords : matrix[c] = 5}
  IN  IF ~InBounds(x, y) THEN 1000000000
      ELSE IF cell_value = 5
           THEN (IF min_dist_water = Infinity THEN Infinity
                 ELSE -100000 + min_dist_water)
      ELSE IF cell_value = 3 THEN -10000
      ELSE IF cell_value = 4 THEN 1000000
      ELSE IF fire_positions # {} THEN MinDist(fire_positions, x, y)
      ELSE 100000

\* All sequences of length n over the set S.
SeqsOf(S, n) == [1 .. n -> S]

\* pbest_values.indexOf(Math.min(...pbest_values))
BestIdx(vals) ==
  CHOOSE i \in 1 .. Len(vals) :
    /\ \A j \in 1 .. Len(vals) : vals[i] <= vals[j]
    /\ \A j \in 1 .. i - 1 : vals[j] # vals[i]

\* new DroneSwarm(env, num_drones) on the grid g of Width x Height: one
\* outcome per stream of draws, [threw, swarm].  The constructor tests
\* nothing: Array(num_drones) throws a RangeError for a negative length, and
\* with no drone indexOf gives -1 and the spread of pbest_positions[-1],
\* undefined, throws a TypeError.
DroneSwarm(g, num_drones) ==
  IF num_drones < 0 THEN { [threw |-> "RangeError"] }
  ELSE IF num_drones = 0 THEN { [threw |-> "TypeError"] }
  ELSE
  { LET pbest_values == [i \in 1 .. num_drones |-> fitness(g, positions[i])]
        best_idx == BestIdx(pbest_values)
    IN  [threw |-> "none",
         swarm |->
           [positions |-> positions,
            velocities |-> velocities,
            pbest_positions |-> positions,
            pbest_values |-> pbest_values,
            gbest_position |-> positions[best_idx],
            gbest_value |-> pbest_values[best_idx],
            water_left |-> [i \in 1 .. num_drones |-> MAX_WATER_CAPACITY],
            refill_timers |-> [i \in 1 .. num_drones |-> 0]]]
    : <<positions, velocities>> \in
        SeqsOf({ << r1 * (Width - 1), r2 * (Height - 1) >>
                 : <<r1, r2>> \in PosDraws \X PosDraws }, num_drones)
        \X
        SeqsOf({ << (r1 - 500) * 3, (r2 - 500) * 3 >>
                 : <<r1, r2>> \in VelDraws \X VelDraws }, num_drones) }

\* new DroneSwarm(env, 20) of step_sim, with NumDrones for the 20.
NewDroneSwarm(g) == { r.swarm : r \in DroneSwarm(g, NumDrones) }

\* One axis of the velocity update, with r_p and r_g in thousandths.
NewVelocity(v, p, pb, gb, r_p, r_g) ==
  Trunc(omega * v + ((phiP * r_p) \div 1000) * (pb - p)
                   + ((phiG * r_g) \div 1000) * (gb - p), 1000)
Clamp(p, hi) == Max(0, Min(hi, p))

\* The movement pass of step() for drone i with the draws r_p, r_g.
MoveDrone(sw, i, r_p, r_g) ==
  LET vx == NewVelocity(sw.velocities[i][1], sw.positions[i][1],
                        sw.pbest_positions[i][1], sw.gbest_position[1],
                        r_p, r_g)
      vy == NewVelocity(sw.velocities[i][2], sw.positions[i][2],
                        sw.pbest_positions[i][2], sw.gbest_position[2],
                        r_p, r_g)
  IN  [sw EXCEPT
         !.velocities[i] = <<vx, vy>>,
         !.positions[i] =
           << Clamp(sw.positions[i][1] + vx, (Width - 1) * 1000),
              Clamp(sw.positions[i][2] + vy, (Height - 1) * 1000) >>]

RECURSIVE MovePass(_, _)
MovePass(sw, i) ==
  IF i > Len(sw.positions) THEN {sw}
  ELSE UNION { MovePass(MoveDrone(sw, i, r_p, r_g), i + 1)
               : <<r_p, r_g>> \in PsoDraws \X PsoDraws }

\* Mutant of BestPass: the bests follow the current fitness whenever it
\* differs, not only when it is lower.
RECURSIVE BestPassTrackCurrent(_, _, _)
BestPassTrackCurrent(sw, g, i) ==
  IF i > Len(sw.positions) THEN sw
  ELSE LET f == fitness(g, sw.positions[i])
       IN  BestPassTrackCurrent(
             IF f # sw.pbest_values[i]
             THEN [sw EXCEPT !.pbest_positions[i] = sw.positions[i],
                             !.pbest_values[i] = f,
                             !.gbest_position = sw.positions[i],
                             !.gbest_value = f]
             ELSE sw, g, i + 1)

\* Mutant of BestPass: only the first drone's improvement reaches the global
\* best.
RECURSIVE BestPassGbestFirstDrone(_, _, _)
BestPassGbestFirstDrone(sw, g, i) ==
  IF i > Len(sw.positions) THEN sw
  ELSE LET f == fitness(g, sw.positions[i])
           sw1 == IF f < sw.pbest_values[i]
                  THEN [sw EXCEPT !.pbest_positions[i] = sw.positions[i],
                                  !.pbest_values[i] = f]
                  ELSE sw
           sw2 == IF f < sw.pbest_values[i] /\ f < sw.gbest_value /\ i = 1
                  THEN [sw1 EXCEPT !.gbest_position = sw.positions[i],
                                   !.gbest_value = f]
                  ELSE sw1
       IN  BestPassGbestFirstDrone(sw2, g, i + 1)

\* The best-update pass of step(), from drone i on.
RECURSIVE BestPass(_, _, _)
BestPass(sw, g, i) ==
  IF i > Len(sw.positions) THEN sw
  ELSE LET f == fitness(g, sw.positions[i])
           sw1 == IF f < sw.pbest_values[i]
                  THEN [sw EXCEPT !.pbest_positions[i] = sw.positions[i],
                                  !.pbest_values[i] = f]
                  ELSE sw
           sw2 == IF f < sw.pbest_values[i] /\ f < sw.gbest_value
                  THEN [sw1 EXCEPT !.gbest_position = sw.positions[i],
                                   !.gbest_value = f]
                  ELSE sw1
       IN  BestPass(sw2, g, i + 1)
\* Mutant of Scan: the scan stops only after three suppressions, not when
\* water_left reaches 0.
RECURSIVE ScanNoWaterCheck(_, _, _, _, _, _)
ScanNoWaterCheck(st, i, x, y, k, extinguished_local) ==
  IF k > Len(ScanOrder) \/ extinguished_local >= 3
  THEN st
  ELSE LET nx == x + ScanOrder[k][1]
           ny == y + ScanOrder[k][2]
           r == extinguish_fire_at(
                  [grid |-> st.grid, active_fires |-> st.active_fires],
                  st.time, nx, ny, <<x, y>>)
       IN  IF r.ok
           THEN ScanNoWaterCheck(
                  [st EXCEPT !.sw.water_left[i] = @ - 1,
                             !.grid = r.grid,
                             !.active_fires = r.active_fires,
                             !.time = r.time, !.count = @ + 1,
                             !.by[i] = @ + 1,
                             !.calls = Append(@, <<i, <<nx, ny>>, <<x, y>>>>)],
                  i, x, y, k + 1, extinguished_local + 1)
           ELSE ScanNoWaterCheck([st EXCEPT !.misses = @ + 1], i, x, y, k + 1,
                                 extinguished_local)

\* Mutant of Scan: drone_pos is taken from pbest_positions, not positions.
RECURSIVE ScanFromPbest(_, _, _, _, _, _)
ScanFromPbest(st, i, x, y, k, extinguished_local) ==
  IF k > Len(ScanOrder) \/ extinguished_local >= 3
     \/ st.sw.water_left[i] <= 0
  THEN st
  ELSE LET nx == x + ScanOrder[k][1]
           ny == y + ScanOrder[k][2]
           from == CellOf(st.sw.pbest_positions[i])
           r == extinguish_fire_at(
                  [grid |-> st.grid, active_fires |-> st.active_fires],
                  st.time, nx, ny, from)
       IN  IF r.ok
           THEN ScanFromPbest(
                  [st EXCEPT !.sw.water_left[i] = @ - 1,
                             !.grid = r.grid,
                             !.active_fires = r.active_fires,
                             !.time = r.time, !.count = @ + 1,
                             !.by[i] = @ + 1,
                             !.calls = Append(@, <<i, <<nx, ny>>, from>>)],
                  i, x, y, k + 1, extinguished_local + 1)
           ELSE ScanFromPbest([st EXCEPT !.misses = @ + 1], i, x, y, k + 1,
                              extinguished_local)

\* The 3x3 scan of drone i standing on cell (x, y), from offset k on, with
\* extinguished_local cells suppressed so far.  st = [sw, grid, active_fires,
\* time, count, by, misses, calls, scans]: count is extinguished_count;
\* by[i] counts the calls of drone i that returned true and misses those
\* that returned false; calls lists, for each call that returned true, the
\* drone, the target (nx, ny) and the drone_pos argument.
\* Once the break condition holds it holds for every later offset, so the
\* scan is over.
RECURSIVE Scan(_, _, _, _, _, _)
Scan(st, i, x, y, k, extinguished_local) ==
  IF k > Len(ScanOrder) \/ extinguished_local >= 3
     \/ st.sw.water_left[i] <= 0
  THEN st
  ELSE LET nx == x + ScanOrder[k][1]
           ny == y + ScanOrder[k][2]
           r == extinguish_fire_at(
                  [grid |-> st.grid, active_fires |-> st.active_fires],
                  st.time, nx, ny, <<x, y>>)
       IN  IF r.ok
           THEN Scan([st EXCEPT !.sw.water_left[i] = @ - 1,
                                !.grid = r.grid,
                                !.active_fires = r.active_fires,
                                !.time = r.time, !.count = @ + 1,
                                !.by[i] = @ + 1,
                                !.calls =
                                  Append(@, <<i, <<nx, ny>>, <<x, y>>>>)],
                     i, x, y, k + 1, extinguished_local + 1)
           ELSE Scan([st EXCEPT !.misses = @ + 1], i, x, y, k + 1,
                     extinguished_local)

\* Mutant of Refill: the timer runs on any cell, not only over water.
RefillAnywhere(sw, i, cell) ==
  IF sw.refill_timers[i] + 1 >= REFILL_TIME
  THEN [sw EXCEPT !.water_left[i] = MAX_WATER_CAPACITY,
                  !.refill_timers[i] = 0]
  ELSE [sw EXCEPT !.refill_timers[i] = @ + 1]

\* The refill branch of step() for the grounded drone i on the cell.
Refill(sw, i, cell) ==
  IF cell.water
  THEN IF sw.refill_timers[i] + 1 >= REFILL_TIME
       THEN [sw EXCEPT !.water_left[i] = MAX_WATER_CAPACITY,
                       !.refill_timers[i] = 0]
       ELSE [sw EXCEPT !.refill_timers[i] = @ + 1]
  ELSE sw

\* The suppression pass of step(), from drone i on.  scans[i] records the
\* cell (x, y) of drone i, its water_left and the burning cells when its
\* turn begins.
RECURSIVE SuppressPass(_, _)
SuppressPass(st, i) ==
  IF i > Len(st.sw.positions) THEN st
  ELSE LET x == CellOf(st.sw.positions[i])[1]
           y == CellOf(st.sw.positions[i])[2]
           st1 == [st EXCEPT !.scans[i] =
                     [cell |-> <<x, y>>, water |-> st.sw.water_left[i],
                      fires |-> {c \in Coords : st.grid[c].fire}]]
       IN  IF ~InBounds(x, y) THEN SuppressPass(st, i + 1)
           ELSE IF st.sw.water_left[i] = 0
           THEN SuppressPass(
                  [st1 EXCEPT !.sw = Refill(st.sw, i, st.grid[<<x, y>>])],
                  i + 1)
           ELSE SuppressPass(Scan(st1, i, x, y, 1, 0), i + 1)

\* step(iteration, simulation_time): the results it can have, one per stream
\* of draws.
SwarmStep(sw, e, t) ==
  { SuppressPass([sw |-> BestPass(moved, e.grid, 1),
                  grid |-> e.grid, active_fires |-> e.active_fires,
                  time |-> t, count |-> 0,
                  by |-> [i \in DOMAIN sw.positions |-> 0], misses |-> 0,
                  calls |-> << >>,
                  scans |-> [i \in DOMAIN sw.positions |->
                               [cell |-> << -1, -1 >>, water |-> 0,
                                fires |-> {}]]], 1)
    : moved \in MovePass(sw, 1) }
\* ------------------------------------------------ FireSuppressionSimulation
VARIABLES
  envReady,          \* envRef.current is an Environment
  grid,              \* envRef.current.grid
  active_fires,      \* envRef.current.active_fires
  swarm,             \* simRef.current: NoSwarm or a DroneSwarm
  stepCount,         \* stepCountRef.current
  simTime,           \* simTimeRef.current[0], in thousandths
  totalExtinguished, \* totalExtinguishedRef.current
  running,           \* the running state that keeps the interval alive
  stats,             \* the stats state set by updateStats
  last               \* what the last handler did (history, not program state)

vars == << envReady, grid, active_fires, swarm, stepCount, simTime,
           totalExtinguished, running, stats, last >>

NoSwarm == [none |-> TRUE]
NoTarget == << -1, -1 >>
Env == [grid |-> grid, active_fires |-> active_fires]

\* updateStats(env, extCount, elapsed)
updateStats(e, extCount, elapsed) ==
  [fires |-> Len(e.active_fires), extinguished |-> extCount,
   saved |-> count_trees(e.grid)[1], burnt |-> count_trees(e.grid)[2],
   elapsed_time |-> elapsed]

Init ==
  /\ envReady = FALSE
  /\ grid = NewGrid
  /\ active_fires = << >>
  /\ swarm = NoSwarm
  /\ stepCount = 0
  /\ simTime = 0
  /\ totalExtinguished = 0
  /\ running = FALSE
  /\ stats = [fires |-> 0, extinguished |-> 0, saved |-> 0, burnt |-> 0,
              elapsed_time |-> 0]
  /\ last = [op |-> "none"]

\* The n ignitions of initSim, each at a drawn cell of the middle third.
RECURSIVE InitialFires(_, _)
InitialFires(e, n) ==
  IF n = 0 THEN {e}
  ELSE UNION { InitialFires(
                 ignite(e, Floor(rx * Width, 3000) + Floor(Width, 3),
                           Floor(ry * Height, 3000) + Floor(Height, 3)),
                 n - 1)
               : <<rx, ry>> \in RandVals \X RandVals }

\* The "Start Simulation" button: initSim() and setRunning(true).
InitSim ==
  /\ ~envReady
  /\ \E g \in add_water_blobs(NewGrid, 3) :
       \E e \in InitialFires([grid |-> g, active_fires |-> << >>], 5) :
         /\ grid' = e.grid
         /\ active_fires' = e.active_fires
         /\ stats' = updateStats(e, 0, 0)
  /\ envReady' = TRUE
  /\ swarm' = NoSwarm
  /\ stepCount' = 0
  /\ simTime' = 0
  /\ totalExtinguished' = 0
  /\ running' = TRUE
  /\ last' = [op |-> "initSim"]

\* Mutant of SwarmPart: the swarm is built anew in every tick from 10 on.
SwarmPartRecreate(e) ==
  LET swarms == IF stepCount >= 10 THEN NewDroneSwarm(e.grid) ELSE {swarm}
      t == IF stepCount >= 10 THEN 0 ELSE simTime
      created == (stepCount >= 10)
  IN  UNION { IF sw # NoSwarm
              THEN { [sw |-> r.sw, grid |-> r.grid,
                      active_fires |-> r.active_fires, time |-> r.time,
                      count |-> r.count, by |-> r.by, misses |-> r.misses,
                      calls |-> r.calls, scans |-> r.scans, start |-> sw,
                      created |-> created, stepped |-> TRUE]
                     : r \in SwarmStep(sw, e, t) }
              ELSE { [sw |-> sw, grid |-> e.grid,
                      active_fires |-> e.active_fires, time |-> t,
                      count |-> 0, by |-> [i \in Drones |-> 0],
                      misses |-> 0,
                      calls |-> << >>, scans |-> << >>, start |-> sw,
                      created |-> created, stepped |-> FALSE] }
              : sw \in swarms }

\* The swarm part of step_sim on the environment e left by spread_fire:
\* [sw, grid, active_fires, time, count, by, misses, calls, scans, start,
\* created, stepped], start being the swarm on which step() was called.
SwarmPart(e) ==
  LET swarms == IF stepCount = 10 THEN NewDroneSwarm(e.grid) ELSE {swarm}
      t == IF stepCount = 10 THEN 0 ELSE simTime
      created == (stepCount = 10)
  IN  UNION { IF sw # NoSwarm
              THEN { [sw |-> r.sw, grid |-> r.grid,
                      active_fires |-> r.active_fires, time |-> r.time,
                      count |-> r.count, by |-> r.by, misses |-> r.misses,
                      calls |-> r.calls, scans |-> r.scans, start |-> sw,
                      created |-> created, stepped |-> TRUE]
                     : r \in SwarmStep(sw, e, t) }
              ELSE { [sw |-> sw, grid |-> e.grid,
                      active_fires |-> e.active_fires, time |-> t,
                      count |-> 0, by |-> [i \in Drones |-> 0],
                      misses |-> 0,
                      calls |-> << >>, scans |-> << >>, start |-> sw,
                      created |-> created, stepped |-> FALSE] }
              : sw \in swarms }

\* Mutant of Spontaneous: the ignition is tried every fifth tick.
SpontaneousEveryFifth(e) ==
  IF stepCount % 5 = 0
  THEN UNION { IF r < 300
               THEN { << ignite(e, Floor(rx * Width, 1000),
                                   Floor(ry * Height, 1000)),
                         << Floor(rx * Width, 1000),
                            Floor(ry * Height, 1000) >> >>
                      : <<rx, ry>> \in RandVals \X RandVals }
               ELSE { << e, NoTarget >> }
               : r \in RandVals }
  ELSE { << e, NoTarget >> }

\* The spontaneous ignition of step_sim: <<environment, target>> pairs, the
\* target being NoTarget when ignite is not called.
Spontaneous(e) ==
  IF stepCount % 15 = 0
  THEN UNION { IF r < 300
               THEN { << ignite(e, Floor(rx * Width, 1000),
                                   Floor(ry * Height, 1000)),
                         << Floor(rx * Width, 1000),
                            Floor(ry * Height, 1000) >> >>
                      : <<rx, ry>> \in RandVals \X RandVals }
               ELSE { << e, NoTarget >> }
               : r \in RandVals }
  ELSE { << e, NoTarget >> }

\* Mutant of ShouldStop: the stop is signalled from the 20th tick on.
ShouldStopFrom20(e, count) == Len(e.active_fires) = 0 /\ count >= 20

\* Mutant of ShouldStop: the stop is signalled at the 21st tick only.
ShouldStopAt21(e, count) == Len(e.active_fires) = 0 /\ count = 21

\* The termination check of step_sim, on the environment and the incremented
\* step count.
ShouldStop(e, count) == Len(e.active_fires) = 0 /\ count > 20

\* One firing of the interval: step_sim().
StepSim ==
  /\ running
  /\ envReady
  /\ stepCount < MaxStep
  /\ \E e1 \in spread_fire(Env) :
       \E s \in SwarmPart(e1) :
         \E p \in Spontaneous([grid |-> s.grid,
                               active_fires |-> s.active_fires]) :
           LET e2 == p[1]
               stop == ShouldStop(e2, stepCount + 1)
           IN  /\ grid' = e2.grid
               /\ active_fires' = e2.active_fires
               /\ swarm' = s.sw
               /\ simTime' = s.time
               /\ totalExtinguished' = totalExtinguished + s.count
               /\ stepCount' = stepCount + 1
               /\ stats' = updateStats(e2, totalExtinguished + s.count,
                                       s.time)
               /\ running' = IF stop THEN FALSE ELSE running
               /\ last' = [op |-> "step_sim", extinguished |-> s.count,
                           by |-> s.by, misses |-> s.misses,
                           refilled |->
                             IF swarm = NoSwarm THEN {}
                             ELSE { i \in Drones : s.sw.water_left[i]
                                                    > swarm.water_left[i] },
                           created |-> s.created, stepped |-> s.stepped,
                           target |-> p[2], stop |-> stop,
                           burnouts |-> e1.burnouts,
                           spreaders |-> e1.spreaders,
                           adv |-> [grid |-> e1.grid,
                                    active_fires |-> e1.active_fires],
                           calls |-> s.calls, scans |-> s.scans,
                           start |-> s.start,
                           mid |-> [grid |-> s.grid,
                                    active_fires |-> s.active_fires]]
  /\ UNCHANGED envReady

Next == InitSim \/ StepSim

Spec == Init /\ [][Next]_vars

RECURSIVE SumOver(_, _)
SumOver(f, S) ==
  IF S = {} THEN 0
  ELSE LET i == CHOOSE i \in S : TRUE IN f[i] + SumOver(f, S \ {i})

\* travel_time of a suppression of cell c by a drone on cell d, thousandths.
TravelTime(d, c) ==
  (SqrtMilli[(c[1] - d[1]) * (c[1] - d[1]) + (c[2] - d[2]) * (c[2] - d[2])]
   * CELL_SIZE) \div DRONE_SPEED

\* ---------------------------------------------------------------- scenario
\* A run taken up in its middle, for the cases of step() that need more
\* burnt and burning cells around a drone than one drone leaves behind on a
\* grid of Width x Height: the cells are a window of the program's 40 x 20
\* grid with its 20 drones.  The state is one that ends a tick of index 30:
\* the drones hover over the cell b with w units of water each, having
\* suppressed the cells S around b; the ignition of that tick may have lit
\* one cell around b (cooldown 3), and out of the drones' reach cells burn
\* with the cooldown 1 or 2 that an advance leaves.
ScenarioTicks == 2
ScenarioStart == 2 * 15 + 1
Around(cell) ==
  {c \in Coords : c[1] - cell[1] \in -1 .. 1 /\ c[2] - cell[2] \in -1 .. 1}
\* The cells of a set as a list, by x and then y.
RECURSIVE OrderOf(_)
OrderOf(S) ==
  IF S = {} THEN << >>
  ELSE LET c == CHOOSE c \in S :
                  \A d \in S : c[1] < d[1] \/ (c[1] = d[1] /\ c[2] <= d[2])
       IN  << c >> \o OrderOf(S \ {c})
ScenarioGrid(wt, S, fresh, cd) ==
  [c \in Coords |->
     IF c = wt THEN [Cell(ElevationAt(c[1], c[2])) EXCEPT
                       !.water = TRUE, !.tree = FALSE]
     ELSE IF c \in S THEN [Cell(ElevationAt(c[1], c[2])) EXCEPT
                             !.burnt = TRUE, !.tree = FALSE,
                             !.extinguished_by_drone = TRUE]
     ELSE IF c \in fresh THEN [Cell(ElevationAt(c[1], c[2])) EXCEPT
                                 !.fire = TRUE, !.fire_cooldown = 3]
     ELSE IF c \in DOMAIN cd THEN [Cell(ElevationAt(c[1], c[2])) EXCEPT
                                     !.fire = TRUE, !.fire_cooldown = cd[c]]
     ELSE Cell(ElevationAt(c[1], c[2]))]
ScenarioSwarm(g, b, w) ==
  LET pos == << b[1] * 1000, b[2] * 1000 >>
  IN  [positions |-> [i \in Drones |-> pos],
       velocities |-> [i \in Drones |-> <<0, 0>>],
       pbest_positions |-> [i \in Drones |-> pos],
       pbest_values |-> [i \in Drones |-> fitness(g, pos)],
       gbest_position |-> pos,
       gbest_value |-> fitness(g, pos),
       water_left |-> [i \in Drones |-> w],
       refill_timers |-> [i \in Drones |-> 0]]
ScenarioInit ==
  \E wt \in Coords : \E b \in Coords : \E w \in 1 .. MAX_WATER_CAPACITY :
    \E S \in SUBSET (Around(b) \ {wt}) :
      \E fresh \in SUBSET (Around(b) \ (S \cup {wt})) :
        \E out \in SUBSET (Coords \ (Around(b) \cup {wt})) :
          \E cd \in [out -> {1, 2}] :
            LET g == ScenarioGrid(wt, S, fresh, cd)
                af == OrderOf(out) \o OrderOf(fresh)
                t == SumOver([c \in S |-> TravelTime(b, c)
                                           + EXTINGUISH_TIME * 1000], S)
            IN  /\ Cardinality(S) = NumDrones * (MAX_WATER_CAPACITY - w)
                /\ Cardinality(fresh) <= 1
                /\ envReady = TRUE
                /\ grid = g
                /\ active_fires = af
                /\ swarm = ScenarioSwarm(ScenarioGrid(wt, S, {}, cd), b, w)
                /\ stepCount = ScenarioStart
                /\ simTime = t
                /\ totalExtinguished = Cardinality(S)
                /\ running = TRUE
                /\ stats = updateStats([grid |-> g, active_fires |-> af],
                                       Cardinality(S), t)
                /\ last = [op |-> "scenario"]
ScenarioStep == stepCount < ScenarioStart + ScenarioTicks /\ StepSim
ScenarioSpec == ScenarioInit /\ [][ScenarioStep]_vars
\* ------------------------------------------------------------ constructors
\* The constructors as functions of their arguments: an Environment of any
\* width and height up to MaxConfig, and then, on an Environment of
\* Width x Height, a DroneSwarm of any num_drones from -1 to MaxConfig.
MaxConfig == 4
ConstructEnvironment ==
  /\ ~envReady
  /\ \E w \in 0 .. MaxConfig : \E h \in 0 .. MaxConfig :
       LET env == Environment(w, h)
       IN  /\ grid' = env.grid
           /\ active_fires' = env.active_fires
           /\ last' = [op |-> "Environment", width |-> w, height |-> h]
  /\ envReady' = TRUE
  /\ UNCHANGED << swarm, stepCount, simTime, totalExtinguished, running,
                  stats >>
ConstructSwarm ==
  /\ envReady
  /\ last.op = "Environment"
  /\ last.width = Width /\ last.height = Height
  /\ \E n \in -1 .. MaxConfig : \E r \in DroneSwarm(grid, n) :
       /\ swarm' = IF r.threw = "none" THEN r.swarm ELSE swarm
       /\ last' = [op |-> "DroneSwarm", num_drones |-> n, threw |-> r.threw]
  /\ UNCHANGED << envReady, grid, active_fires, stepCount, simTime,
                  totalExtinguished, running, stats >>
ConfigNext == ConstructEnvironment \/ ConstructSwarm
ConfigSpec == Init /\ [][ConfigNext]_vars

\* ------------------------------------------------------- a swarm of several
\* The program with FleetDrones drones for the 20 of step_sim, run for the
\* ticks around the creation of the swarm.
FleetDrones == 2
FleetMaxStep == 12

\* new DroneSwarm(env, 20) of step_sim, with FleetDrones for the 20.
FleetSwarm(g) == { r.swarm : r \in DroneSwarm(g, FleetDrones) }

\* The swarm part of step_sim with a swarm of FleetDrones drones.
FleetPart(e) ==
  LET swarms == IF stepCount = 10 THEN FleetSwarm(e.grid) ELSE {swarm}
      t == IF stepCount = 10 THEN 0 ELSE simTime
      created == (stepCount = 10)
  IN  UNION { IF sw # NoSwarm
              THEN { [sw |-> r.sw, grid |-> r.grid,
                      active_fires |-> r.active_fires, time |-> r.time,
                      count |-> r.count, by |-> r.by, misses |-> r.misses,
                      calls |-> r.calls, scans |-> r.scans, start |-> sw,
                      created |-> created, stepped |-> TRUE]
                     : r \in SwarmStep(sw, e, t) }
              ELSE { [sw |-> sw, grid |-> e.grid,
                      active_fires |-> e.active_fires, time |-> t,
                      count |-> 0, by |-> [i \in 1 .. FleetDrones |-> 0],
                      misses |-> 0,
                      calls |-> << >>, scans |-> << >>, start |-> sw,
                      created |-> created, stepped |-> FALSE] }
              : sw \in swarms }

\* One firing of the interval, step_sim(), with a swarm of FleetDrones.
FleetStepSim ==
  /\ running
  /\ envReady
  /\ stepCount < FleetMaxStep
  /\ \E e1 \in spread_fire(Env) :
       \E s \in FleetPart(e1) :
         \E p \in Spontaneous([grid |-> s.grid,
                               active_fires |-> s.active_fires]) :
           LET e2 == p[1]
               stop == ShouldStop(e2, stepCount + 1)
           IN  /\ grid' = e2.grid
               /\ active_fires' = e2.active_fires
               /\ swarm' = s.sw
               /\ simTime' = s.time
               /\ totalExtinguished' = totalExtinguished + s.count
               /\ stepCount' = stepCount + 1
               /\ stats' = updateStats(e2, totalExtinguished + s.count,
                                       s.time)
               /\ running' = IF stop THEN FALSE ELSE running
               /\ last' = [op |-> "step_sim", extinguished |-> s.count,
                           by |-> s.by, misses |-> s.misses,
                           created |-> s.created, stepped |-> s.stepped,
                           target |-> p[2], stop |-> stop,
                           start |-> s.start]
  /\ UNCHANGED envReady

FleetNext == InitSim \/ FleetStepSim

FleetSpec == Init /\ [][FleetNext]_vars

\* ------------------------------------------------------------- termination
\* The run without a last tick.  step_sim tests the tick count only by
\* === 10, % 15 === 0 and > 20, so the count is kept exactly up to LiveCap
\* and folded by 15 beyond it, which leaves the three tests as they are.
LiveCap == 35
Fold(count) == IF count > LiveCap THEN count - 15 ELSE count

\* One firing of the interval, step_sim(), with the folded tick count.
LiveStepSim ==
  /\ running
  /\ envReady
  /\ \E e1 \in spread_fire(Env) :
       \E s \in SwarmPart(e1) :
         \E p \in Spontaneous([grid |-> s.grid,
                               active_fires |-> s.active_fires]) :
           LET e2 == p[1]
               stop == ShouldStop(e2, stepCount + 1)
           IN  /\ grid' = e2.grid
               /\ active_fires' = e2.active_fires
               /\ swarm' = s.sw
               /\ simTime' = s.time
               /\ totalExtinguished' = totalExtinguished + s.count
               /\ stepCount' = Fold(stepCount + 1)
               /\ stats' = updateStats(e2, totalExtinguished + s.count,
                                       s.time)
               /\ running' = IF stop THEN FALSE ELSE running
               /\ last' = [op |-> "step_sim", stop |-> stop,
                           folded |-> stepCount + 1 > LiveCap]
  /\ UNCHANGED envReady

\* The interval is alive: step_sim can fire.
TickEnabled == running /\ envReady

\* The burning cell c is in for a burnout draw: step_sim can fire, and
\* spread_fire draws Math.random() < 0.03 for every burning cell.
BurnoutEnabled(c) == TickEnabled /\ grid[c].fire

\* The burnout draw of cell c succeeded in this tick.
BurnsOut(c) ==
  grid[c].fire /\ grid'[c].burnt /\ ~grid'[c].extinguished_by_drone

LiveNext == InitSim \/ LiveStepSim

\* The button is pressed; the interval fires for as long as running holds;
\* a cell that burns for ever draws its burnout in the end.  The last two are
\* weak fairness of the tick and of the tick with the burnout of c, with
\* ENABLED written out as TickEnabled and BurnoutEnabled(c).
LiveSpec ==
  /\ Init
  /\ [][LiveNext]_vars
  /\ WF_vars(InitSim)
  /\ []<>(~TickEnabled) \/ []<><<stepCount' # stepCount>>_vars
  /\ \A c \in Coords : []<>(~BurnoutEnabled(c)) \/ []<><<BurnsOut(c)>>_vars

\* ================================================================== claims
Burning == {c \in Coords : grid[c].fire}
SwarmActive == swarm # NoSwarm
\* Cells that became burnt with extinguished_by_drone in this step.
NewlySuppressed ==
  {c \in Coords : grid'[c].extinguished_by_drone
                  /\ ~grid[c].extinguished_by_drone}

\* C1: after initSim and after every step_sim, active_fires lists exactly the
\* coordinates of the cells with fire = true, each of them once.
C1_ActiveFiresMatchBurning ==
  /\ SeqToSet(active_fires) = Burning
  /\ Len(active_fires) = Cardinality(Burning)

\* A tick in which a cell burnt out or was suppressed, a neighbour was lit and
\* fires remain: every way the list is rebuilt has been used.
C1_Witness ==
  /\ last.op = "step_sim"
  /\ last.extinguished > 0
  /\ \E c \in Burning : grid[c].fire_cooldown = 2
  /\ \E c \in Coords : grid[c].burnt /\ ~grid[c].extinguished_by_drone
  /\ Len(active_fires) >= 2

\* C2: a water cell is never a tree, never burning and never burnt, and it
\* stays water in every step.
C2_WaterIsInert ==
  /\ [](\A c \in Coords :
          grid[c].water => ~grid[c].tree /\ ~grid[c].fire /\ ~grid[c].burnt)
  /\ [][\A c \in Coords : grid[c].water => grid'[c].water]_vars

\* The spontaneous ignition of the last tick aimed at a water cell while a
\* neighbour of a water cell is burning.
C2_Witness ==
  /\ last.op = "step_sim"
  /\ last.target # NoTarget
  /\ grid[last.target].water
  /\ \E c \in Burning : \E w \in Coords :
       /\ grid[w].water
       /\ w[1] - c[1] \in -1 .. 1
       /\ w[2] - c[2] \in -1 .. 1

\* C3: a cell that is burning after a step and was not before was a tree, not
\* burnt and not water before; and ignite on a target that is out of bounds,
\* not a tree, burning, burnt or water returns the environment unchanged.
C3_IgnitionOnlyFromEligible ==
  /\ [][\A c \in Coords :
          ~grid[c].fire /\ grid'[c].fire
            => grid[c].tree /\ ~grid[c].burnt /\ ~grid[c].water]_vars
  /\ [](envReady => \A x \in -1 .. Width : \A y \in -1 .. Height :
          (~InBounds(x, y)
           \/ ~grid[<<x, y>>].tree \/ grid[<<x, y>>].fire
           \/ grid[<<x, y>>].burnt \/ grid[<<x, y>>].water)
            => ignite(Env, x, y) = Env)

\* The spontaneous ignition of the last tick aimed at a naturally burnt cell
\* (still a tree) and left it burnt, while a cell lit by a neighbour burns.
C3_Witness ==
  /\ last.op = "step_sim"
  /\ last.target # NoTarget
  /\ grid[last.target].burnt
  /\ grid[last.target].tree
  /\ \E c \in Burning : grid[c].fire_cooldown = 2

\* C4: every drone's water_left is within 0 .. MAX_WATER_CAPACITY; it goes
\* down only in a step_sim whose swarm step suppressed cells for that drone,
\* by exactly the number of cells the drone suppressed (at most 3), and the
\* cells that became suppressed in the step are as many as the drones'
\* suppressions together.
C4_WaterBounded ==
  /\ [](SwarmActive =>
          \A i \in Drones : swarm.water_left[i] \in 0 .. MAX_WATER_CAPACITY)
  /\ [][SwarmActive' =>
          /\ last'.op = "step_sim"
          /\ Cardinality(NewlySuppressed) = SumOver(last'.by, Drones)
          /\ \A i \in Drones :
               LET before == IF SwarmActive THEN swarm.water_left[i]
                             ELSE MAX_WATER_CAPACITY
               IN  /\ last'.by[i] \in 0 .. 3
                   /\ last'.by[i] <= before
                   /\ swarm'.water_left[i] < before
                        => swarm'.water_left[i] = before - last'.by[i]
                   /\ last'.by[i] > 0
                        => swarm'.water_left[i] = before - last'.by[i]]_vars

\* A drone spent its last unit after suppressing three cells in all.
C4_Witness ==
  /\ SwarmActive
  /\ \E i \in Drones : swarm.water_left[i] = 0 /\ last.by[i] > 0
  /\ Cardinality({c \in Coords : grid[c].extinguished_by_drone}) = 3

\* C5: water_left goes up only from 0 to MAX_WATER_CAPACITY, in a step that
\* ends with the drone on a water cell and refill_timers at REFILL_TIME - 1
\* before it; refill_timers is 0 while the drone has water, counts the steps
\* the empty drone ended on a water cell, and is reset to 0 by the refill.
C5_RefillAfterRefillTime ==
  /\ [](SwarmActive =>
          \A i \in Drones :
            /\ swarm.refill_timers[i] \in 0 .. REFILL_TIME - 1
            /\ swarm.water_left[i] > 0 => swarm.refill_timers[i] = 0)
  /\ [][SwarmActive /\ SwarmActive' =>
          \A i \in Drones :
            LET onWater == grid'[CellOf(swarm'.positions[i])].water
                w == swarm.water_left[i]
                t == swarm.refill_timers[i]
                w2 == swarm'.water_left[i]
                t2 == swarm'.refill_timers[i]
            IN  /\ w2 > w => w = 0 /\ w2 = MAX_WATER_CAPACITY /\ onWater
                              /\ t = REFILL_TIME - 1 /\ t2 = 0
                /\ w = 0 /\ onWater /\ t < REFILL_TIME - 1
                     => w2 = 0 /\ t2 = t + 1
                /\ w = 0 /\ onWater /\ t = REFILL_TIME - 1
                     => w2 = MAX_WATER_CAPACITY /\ t2 = 0
                /\ w = 0 /\ ~onWater => w2 = 0 /\ t2 = t]_vars

\* A drone was refilled in the last tick.
C5_Witness ==
  /\ last.op = "step_sim"
  /\ last.refilled # {}
  /\ \A i \in last.refilled :
       /\ swarm.water_left[i] = MAX_WATER_CAPACITY
       /\ swarm.refill_timers[i] = 0
       /\ grid[CellOf(swarm.positions[i])].water
BurntByDrone == {c \in Coords : grid[c].extinguished_by_drone}

\* C6: once the swarm exists, gbest_value after a step_sim is never above
\* gbest_value before it.
C6_GbestNeverIncreases ==
  [][SwarmActive /\ SwarmActive'
       => swarm'.gbest_value <= swarm.gbest_value]_vars

\* In a tick after the activation the cell under gbest_position is burnt, so
\* its fitness now is far above the gbest_value that is kept.
C6_Witness ==
  /\ SwarmActive
  /\ last.op = "step_sim"
  /\ ~last.created
  /\ grid[CellOf(swarm.gbest_position)].burnt
  /\ swarm.gbest_value < 0
  /\ fitness(grid, swarm.gbest_position) > swarm.gbest_value

\* C7: extinguish_fire_at on a target that is out of bounds or not burning
\* returns false with the grid, active_fires and the clock as they were; and
\* a step_sim in which every such call missed leaves the clock and the cells
\* suppressed by drones as they were.
C7_ExtinguishMissChangesNothing ==
  /\ [](envReady =>
        \A x \in -1 .. Width : \A y \in -1 .. Height : \A d \in Coords :
          (~InBounds(x, y) \/ ~grid[<<x, y>>].fire)
            => extinguish_fire_at(Env, simTime, x, y, d)
               = [ok |-> FALSE, grid |-> grid,
                  active_fires |-> active_fires, time |-> simTime])
  /\ [][last'.op = "step_sim" /\ last'.extinguished = 0
          => simTime' = simTime /\ NewlySuppressed = {}
             /\ totalExtinguished' = totalExtinguished]_vars

\* A drone scanned its whole neighbourhood, out-of-bounds offsets included,
\* and every call missed although a cell elsewhere is burning.
C7_Witness ==
  /\ last.op = "step_sim"
  /\ last.stepped
  /\ last.misses = 9
  /\ last.extinguished = 0
  /\ Burning # {}

\* C8: the clock never goes down; a step_sim that suppresses no cell leaves
\* it unchanged; one that suppresses cells advances it by EXTINGUISH_TIME plus
\* the travel time from the suppressing drone's cell for each of them; so it
\* is at least EXTINGUISH_TIME times the number of suppressions so far.
C8_ClockAdvancesBySuppression ==
  /\ [](simTime >= totalExtinguished * EXTINGUISH_TIME * 1000)
  /\ [][/\ simTime' >= simTime
         /\ last'.op = "step_sim" =>
              /\ totalExtinguished' = totalExtinguished + last'.extinguished
              /\ Cardinality(NewlySuppressed) = last'.extinguished
              /\ last'.extinguished = 0 => simTime' = simTime
              /\ \E who \in [NewlySuppressed -> Drones] :
                   LET cost == [c \in NewlySuppressed |->
                                  TravelTime(CellOf(swarm'.positions[who[c]]),
                                             c) + EXTINGUISH_TIME * 1000]
                   IN  simTime' - simTime = SumOver(cost, NewlySuppressed)]_vars

\* Two or more cells were suppressed in the last tick, one of them by a
\* diagonal move, and the clock is ahead of EXTINGUISH_TIME per suppression.
C8_Witness ==
  /\ last.op = "step_sim"
  /\ last.extinguished >= 2
  /\ simTime > totalExtinguished * EXTINGUISH_TIME * 1000 + 1400

\* C9: there is no swarm, no suppression and a clock of 0 as long as
\* stepCount <= 10; the tick with stepCount = 10 before it, and no other,
\* builds the swarm; every tick from that one on steps the swarm and every
\* earlier tick does not; a swarm once built is never dropped.
C9_SwarmCreatedAtTick10 ==
  /\ [](stepCount <= 10 =>
          swarm = NoSwarm /\ simTime = 0 /\ totalExtinguished = 0
          /\ BurntByDrone = {})
  /\ [](stepCount > 10 => SwarmActive)
  /\ [][last'.op = "step_sim" =>
          /\ last'.created <=> stepCount = 10
          /\ last'.stepped <=> stepCount >= 10
          /\ (SwarmActive' /\ ~SwarmActive) <=> stepCount = 10
          /\ SwarmActive => SwarmActive'
          /\ stepCount' = stepCount + 1]_vars

\* The tick with index 10 has just built the swarm and stepped it.
C9_Witness ==
  /\ stepCount = 11
  /\ SwarmActive
  /\ last.created
  /\ last.stepped

\* C10: after a step_sim, running has been set to false exactly when
\* active_fires is empty and stepCount, already incremented, is above 20.
C10_StopSignal ==
  envReady => (~running <=> (Len(active_fires) = 0 /\ stepCount > 20))

\* The 21st tick ended with no fire and raised the signal, after a tick that
\* could not raise it.
C10_Witness ==
  /\ envReady
  /\ ~running
  /\ stepCount = 21
  /\ last.stop

\* C11: step_sim calls ignite for a spontaneous ignition only in a tick whose
\* index (stepCount before the increment) is a multiple of 15, on the
\* environment left by that tick's spread_fire and swarm step, and at most
\* one cell differs afterwards; an eligible target is lit with cooldown 3
\* and appended to active_fires, and with no call or a target that is
\* burning, burnt or water the grid and active_fires stay as they were.
C11_SpontaneousIgnition ==
  [][last'.op = "step_sim" =>
       LET t == last'.target
           m == last'.mid
       IN  /\ t # NoTarget => stepCount % 15 = 0 /\ InBounds(t[1], t[2])
           /\ Cardinality({c \in Coords : grid'[c] # m.grid[c]}) <= 1
           /\ (t = NoTarget \/ ~Eligible(m.grid[t]))
                => grid' = m.grid /\ active_fires' = m.active_fires
           /\ (t # NoTarget /\ Eligible(m.grid[t]))
                => /\ grid' = [m.grid EXCEPT ![t].fire = TRUE,
                                             ![t].fire_cooldown = 3]
                   /\ active_fires' = Append(m.active_fires, t)]_vars

\* Tick 15 or 30 drew a target that was burning, burnt or water after the
\* swarm had stepped.
C11_Witness ==
  /\ last.op = "step_sim"
  /\ last.stepped
  /\ last.target # NoTarget
  /\ ~Eligible(last.mid.grid[last.target])
  /\ grid = last.mid.grid

\* The calls of drone i among the calls that returned true.
CallsBy(calls, i) == SelectSeq(calls, LAMBDA c : c[1] = i)
\* What the calls added to the clock: travel plus EXTINGUISH_TIME for each.
RECURSIVE ChargeOf(_)
ChargeOf(calls) ==
  IF calls = << >> THEN 0
  ELSE TravelTime(Head(calls)[3], Head(calls)[2]) + EXTINGUISH_TIME * 1000
       + ChargeOf(Tail(calls))
\* The burning cells within one cell of the cell.
BurningAround(cell, fires) ==
  {c \in fires : c[1] - cell[1] \in -1 .. 1 /\ c[2] - cell[2] \in -1 .. 1}
\* The one among them with the least x and, among those, the least y.
FirstBurning(cell, fires) ==
  CHOOSE c \in BurningAround(cell, fires) :
    \A d \in BurningAround(cell, fires) :
      c[1] < d[1] \/ (c[1] = d[1] /\ c[2] <= d[2])

\* C12 as stated: a drone with water_left = 1 that ends its movement on a
\* burning cell makes exactly one suppression in that step, of its own cell,
\* is left with water_left = 0, and adds exactly EXTINGUISH_TIME to the clock.
C12_SuppressesOwnCell ==
  [][last'.op = "step_sim" /\ last'.stepped =>
       \A i \in Drones :
         LET cell == CellOf(swarm'.positions[i])
         IN  (last'.start.water_left[i] = 1 /\ last'.adv.grid[cell].fire)
               => /\ last'.by[i] = 1
                  /\ swarm'.water_left[i] = 0
                  /\ CallsBy(last'.calls, i) = << <<i, cell, cell>> >>
                  /\ ChargeOf(CallsBy(last'.calls, i))
                     = EXTINGUISH_TIME * 1000]_vars

\* C12, amended: a drone with water_left = 1 whose cell is burning when its
\* scan begins makes exactly one suppression in that step and is left with
\* water_left = 0; the cell suppressed is the burning cell of its 3x3
\* neighbourhood that comes first in the scan (least x, then least y), its
\* own cell only when no such cell precedes it; the clock gains
\* EXTINGUISH_TIME plus the travel time from the drone's cell to that cell.
C12_SuppressesFirstInScan ==
  [][last'.op = "step_sim" /\ last'.stepped =>
       /\ simTime' - simTime = ChargeOf(last'.calls)
       /\ \A i \in Drones :
            LET cell == last'.scans[i].cell
                fires == last'.scans[i].fires
                first == FirstBurning(cell, fires)
            IN  (last'.scans[i].water = 1 /\ cell \in fires)
                  => /\ cell = CellOf(swarm'.positions[i])
                     /\ last'.by[i] = 1
                     /\ swarm'.water_left[i] = 0
                     /\ CallsBy(last'.calls, i) = << <<i, first, cell>> >>
                     /\ ChargeOf(CallsBy(last'.calls, i))
                        = EXTINGUISH_TIME * 1000 + TravelTime(cell, first)
                     /\ (first = cell) <=>
                          ~\E c \in fires :
                              \/ c[1] = cell[1] - 1 /\ c[2] - cell[2] \in -1 .. 1
                              \/ c[1] = cell[1] /\ c[2] = cell[2] - 1]_vars

\* A drone with one unit of water stood on a burning cell and suppressed a
\* burning neighbour that the scan reaches first; its own cell burns on.
C12_Witness ==
  /\ last.op = "step_sim"
  /\ last.stepped
  /\ \E i \in Drones :
       /\ last.scans[i].water = 1
       /\ last.scans[i].cell \in last.scans[i].fires
       /\ last.by[i] = 1
       /\ grid[last.scans[i].cell].fire
       /\ simTime > totalExtinguished * EXTINGUISH_TIME * 1000

\* The clock's gain if each call had been charged from the cell of pos[i].
RECURSIVE ChargeFrom(_, _)
ChargeFrom(calls, pos) ==
  IF calls = << >> THEN 0
  ELSE TravelTime(CellOf(pos[Head(calls)[1]]), Head(calls)[2])
       + EXTINGUISH_TIME * 1000 + ChargeFrom(Tail(calls), pos)

\* C14 as stated: the drone_pos of every call that suppresses a cell is the
\* floored position the drone had when step() was called, before the
\* movement pass, and the clock is charged the travel from there.
C14_RequesterIsPreMovement ==
  [][last'.op = "step_sim" /\ last'.stepped =>
       /\ \A k \in 1 .. Len(last'.calls) :
            last'.calls[k][3]
              = CellOf(last'.start.positions[last'.calls[k][1]])
       /\ simTime' - simTime
            = ChargeFrom(last'.calls, last'.start.positions)]_vars

\* C14, amended: the drone_pos of every call that suppresses a cell is the
\* floored position the drone has after this step's movement pass, the
\* centre of the neighbourhood it scans, so the target is within one cell of
\* it; the clock is charged the travel from there.
C14_RequesterIsPostMovement ==
  [][last'.op = "step_sim" /\ last'.stepped =>
       /\ \A k \in 1 .. Len(last'.calls) :
            LET c == last'.calls[k]
            IN  /\ c[3] = CellOf(swarm'.positions[c[1]])
                /\ c[2][1] - c[3][1] \in -1 .. 1
                /\ c[2][2] - c[3][2] \in -1 .. 1
       /\ simTime' - simTime
            = ChargeFrom(last'.calls, swarm'.positions)]_vars

\* A drone moved to another cell and suppressed, in the same step, a cell
\* whose distance from the cell it left differs from that to the cell it
\* reached.
C14_Witness ==
  /\ last.op = "step_sim"
  /\ last.stepped
  /\ \E k \in 1 .. Len(last.calls) :
       LET c == last.calls[k]
           pre == CellOf(last.start.positions[c[1]])
       IN  /\ pre # CellOf(swarm.positions[c[1]])
           /\ TravelTime(pre, c[2]) # TravelTime(c[3], c[2])

\* C13: a construction with a zero-sized grid or a non-positive number of
\* drones is rejected with a configuration error and creates nothing: no
\* Environment stands after new Environment(w, h) with w = 0 or h = 0, and
\* new DroneSwarm(env, n) with n <= 0 ends in a configuration error.
C13_InvalidConfigRejected ==
  /\ (last.op = "Environment" /\ (last.width = 0 \/ last.height = 0))
       => ~envReady
  /\ (last.op = "DroneSwarm" /\ last.num_drones <= 0)
       => last.threw = "ConfigurationError" /\ swarm = NoSwarm

\* C15: a cell whose burnout draw succeeds in spread_fire was burning, ends
\* that call with fire = false, burnt = true and extinguished_by_drone =
\* false, does not run the neighbour loop in it, and is neither in
\* active_fires after the call nor at the end of the tick, where it is still
\* burnt and not burning.
C15_NaturalBurnout ==
  [][last'.op = "step_sim" =>
       \A c \in last'.burnouts :
         LET a == last'.adv
         IN  /\ grid[c].fire
             /\ ~a.grid[c].fire /\ a.grid[c].burnt
             /\ ~a.grid[c].extinguished_by_drone
             /\ c \notin last'.spreaders
             /\ c \notin SeqToSet(a.active_fires)
             /\ c \notin SeqToSet(active_fires')
             /\ ~grid'[c].fire /\ grid'[c].burnt
             /\ ~grid'[c].extinguished_by_drone]_vars

\* A cell burnt out in the advance in which its cooldown had reached 0,
\* while another burning cell spread to a neighbour.
C15_Witness ==
  /\ last.op = "step_sim"
  /\ \E c \in last.burnouts :
       /\ grid[c].burnt /\ grid[c].fire_cooldown = 0
       /\ ~grid[c].extinguished_by_drone
  /\ last.spreaders # {}
  /\ \E c \in Coords : last.adv.grid[c].fire /\ c \notin last.spreaders
                       /\ last.adv.grid[c].fire_cooldown = 2

\* Advances until a burning cell's next neighbour loop, from its cooldown.
AdvancesToSpread(cell) == Max(cell.fire_cooldown, 1)

\* C16: in spread_fire a burning cell that does not burn out runs the
\* neighbour loop exactly when its cooldown is 0 after the decrement, and is
\* left with cooldown 2; otherwise its cooldown has gone down by 1.  A cell
\* lit in this call has cooldown 2 and does not run the loop in it; a cell
\* lit by ignite has cooldown 3.  So a burning cell is AdvancesToSpread
\* advances away from its next loop: 3 when lit by ignite, 2 when lit by a
\* neighbour, 2 again after each loop, and one less after every other advance.
C16_CooldownTiming ==
  /\ [](envReady => \A c \in Burning : grid[c].fire_cooldown \in 1 .. 3)
  /\ [][last'.op = "initSim" =>
          \A c \in Coords : grid'[c].fire => AdvancesToSpread(grid'[c]) = 3]_vars
  /\ [][last'.op = "step_sim" =>
          LET a == last'.adv.grid
          IN  /\ last'.spreaders \subseteq Burning \ last'.burnouts
              /\ \A c \in Burning \ last'.burnouts :
                   /\ a[c].fire
                   /\ c \in last'.spreaders <=> AdvancesToSpread(grid[c]) = 1
                   /\ c \in last'.spreaders => AdvancesToSpread(a[c]) = 2
                   /\ c \notin last'.spreaders =>
                        AdvancesToSpread(a[c]) = AdvancesToSpread(grid[c]) - 1
              /\ \A c \in Coords \ Burning :
                   a[c].fire => AdvancesToSpread(a[c]) = 2
              /\ \A c \in Coords :
                   (grid'[c].fire /\ ~last'.mid.grid[c].fire)
                     => AdvancesToSpread(grid'[c]) = 3]_vars

\* A cell ran its neighbour loop and was reset to 2; a neighbour burns with
\* cooldown 2 without having run the loop; a third cell is one advance from
\* its own loop.
C16_Witness ==
  /\ last.op = "step_sim"
  /\ \E c \in last.spreaders :
       /\ last.adv.grid[c].fire_cooldown = 2
       /\ \E n \in Around(c) \ {c} :
            /\ last.adv.grid[n].fire
            /\ n \notin last.spreaders
            /\ last.adv.grid[n].fire_cooldown = 2
  /\ \E c \in Coords : last.adv.grid[c].fire /\ last.adv.grid[c].fire_cooldown = 1

\* C17: between the end of spread_fire and the end of the swarm step of a
\* tick the only cells that differ are cells that were burning, now with
\* fire = false, burnt = true, tree = false, cooldown 0 and
\* extinguished_by_drone = true; their number is the count step() returns
\* (0 with no differing cell in a tick without swarm), and active_fires has
\* lost exactly them.
C17_SwarmStepFrame ==
  [][last'.op = "step_sim" =>
       LET a == last'.adv
           m == last'.mid
           changed == {c \in Coords : m.grid[c] # a.grid[c]}
       IN  /\ \A c \in changed :
                /\ a.grid[c].fire
                /\ m.grid[c] = [a.grid[c] EXCEPT
                                  !.fire = FALSE, !.burnt = TRUE,
                                  !.tree = FALSE, !.fire_cooldown = 0,
                                  !.extinguished_by_drone = TRUE]
           /\ last'.extinguished = Cardinality(changed)
           /\ ~last'.stepped => changed = {}
           /\ changed = {k[2] : k \in SeqToSet(last'.calls)}
           /\ m.active_fires
              = SelectSeq(a.active_fires, LAMBDA c : c \notin changed)]_vars

\* A swarm step suppressed two or more cells and left another cell burning.
C17_Witness ==
  /\ last.op = "step_sim"
  /\ last.stepped
  /\ last.extinguished >= 2
  /\ Cardinality({c \in Coords : last.mid.grid[c] # last.adv.grid[c]}) >= 2
  /\ \E c \in Coords : last.mid.grid[c].fire

\* The grids a tick passes through: after spread_fire, after the swarm step
\* and at its end.
GridsOfTick ==
  {grid} \cup (IF last.op = "step_sim"
               THEN {last.adv.grid, last.mid.grid} ELSE {})

\* A position inside cell c.
PosIn(c) == << c[1] * 1000 + 500, c[2] * 1000 + 500 >>

\* C18: on every grid of the run the fitness of a position on a burning cell
\* is strictly lower than the fitness of a position on any cell that is not
\* burning (water, burnt or neutral), and is negative.
C18_FireDominates ==
  envReady =>
    \A g \in GridsOfTick :
      \A cf \in Coords : g[cf].fire =>
        /\ fitness(g, PosIn(cf)) < -10000
        /\ \A c \in Coords : ~g[c].fire =>
             fitness(g, PosIn(cf)) < fitness(g, PosIn(c))

\* A grid with water, a burning cell whose nearest water is diagonal to it,
\* a burnt cell and a neutral cell at once.
C18_Witness ==
  /\ envReady
  /\ \E cf, cb, cn \in Coords :
       /\ grid[cf].fire
       /\ fitness(grid, PosIn(cf)) > -99000
       /\ grid[cb].burnt /\ ~grid[cb].fire
       /\ get_attraction_matrix(grid)[cn] = 0
  /\ \E cw \in Coords : grid[cw].water

\* From grid g to the later grid h: a burnt cell stays burnt and does not
\* burn, no cell of h is burning and burnt, and a cell that stopped burning
\* is burnt.
BurntForGood(g, h) ==
  \A c \in Coords :
    /\ g[c].burnt => h[c].burnt /\ ~h[c].fire
    /\ ~(h[c].fire /\ h[c].burnt)
    /\ g[c].fire /\ ~h[c].fire => h[c].burnt
    /\ ~g[c].fire /\ h[c].fire => ~g[c].burnt

\* C19: burnt is permanent and excludes burning through every phase of a
\* tick (spread_fire, swarm step, spontaneous ignition): a burnt cell stays
\* burnt and never burns, no cell is burning and burnt at once, and a cell
\* that stops burning is burnt from then on, so that a cell burns once at
\* most.  initSim leaves no burnt cell.
C19_BurntIsPermanent ==
  [][/\ last'.op = "initSim" => \A c \in Coords : ~grid'[c].burnt
     /\ last'.op = "step_sim" =>
          /\ BurntForGood(grid, last'.adv.grid)
          /\ BurntForGood(last'.adv.grid, last'.mid.grid)
          /\ BurntForGood(last'.mid.grid, grid')
          /\ BurntForGood(grid, grid')]_vars

\* A cell that burnt out on its own, still a tree, stays burnt in a tick in
\* which a burning cell next to it ran its neighbour loop, and so does a
\* cell a drone suppressed.
C19_Witness ==
  /\ last.op = "step_sim"
  /\ \E c \in Coords :
       /\ grid[c].burnt /\ grid[c].tree /\ ~grid[c].fire
       /\ c \notin last.burnouts
       /\ \E n \in Around(c) \ {c} : n \in last.spreaders
  /\ \E d \in Coords :
       grid[d].burnt /\ grid[d].extinguished_by_drone

\* C20: once the environment exists, the burnt count of count_trees, as
\* computed on the grid and as shown in stats, is the cumulative number of
\* suppressions by drones; a burning cell and a cell that burnt out on its
\* own are trees and are counted as saved, never as burnt.
C20_BurntCountIsSuppressions ==
  envReady =>
    /\ count_trees(grid)[2] = totalExtinguished
    /\ stats.burnt = totalExtinguished
    /\ stats.extinguished = totalExtinguished
    /\ stats.saved = count_trees(grid)[1]
    /\ \A c \in Coords :
         /\ grid[c].fire => grid[c].tree
         /\ grid[c].burnt /\ ~grid[c].extinguished_by_drone => grid[c].tree
         /\ grid[c].burnt /\ grid[c].extinguished_by_drone => ~grid[c].tree
    /\ stats.saved
       >= Cardinality({c \in Coords :
                         \/ grid[c].fire
                         \/ grid[c].burnt /\ ~grid[c].extinguished_by_drone})

\* After a tick the grid holds a cell that burnt out on its own, a burning
\* cell and a cell a drone suppressed.
C20_Witness ==
  /\ last.op = "step_sim"
  /\ totalExtinguished >= 1
  /\ stats.burnt = totalExtinguished
  /\ \E c, d \in Coords :
       /\ grid[c].burnt /\ ~grid[c].extinguished_by_drone
       /\ grid[d].fire

\* The least value of a non-empty list of numbers.
LeastOf(vals) ==
  CHOOSE v \in {vals[i] : i \in DOMAIN vals} :
    \A i \in DOMAIN vals : v <= vals[i]

\* C21: in a swarm of several drones, gbest_value is the least of the
\* pbest_values when the constructor returns and at the end of every step(),
\* and no pbest_value is higher after a step() than before it.
C21_GbestIsLeastPbest ==
  [][last'.op = "step_sim" /\ swarm' # NoSwarm =>
       /\ Len(swarm'.pbest_values) = FleetDrones
       /\ swarm'.gbest_value = LeastOf(swarm'.pbest_values)
       /\ last'.start.gbest_value = LeastOf(last'.start.pbest_values)
       /\ last'.created <=> swarm = NoSwarm
       /\ ~last'.created => last'.start = swarm
       /\ \A i \in DOMAIN swarm'.pbest_values :
            swarm'.pbest_values[i] <= last'.start.pbest_values[i]]_vars

\* A step() in which the drone holding the higher personal best lowered it
\* without reaching the global best, which stayed.
C21_Witness ==
  /\ last.op = "step_sim"
  /\ swarm # NoSwarm
  /\ \E i, j \in DOMAIN swarm.pbest_values :
       /\ swarm.pbest_values[i] < last.start.pbest_values[i]
       /\ swarm.pbest_values[j] < swarm.pbest_values[i]
       /\ swarm.gbest_value = last.start.gbest_value

\* C22: with the interval firing and no cell burning for ever without
\* drawing its burnout, every run reaches the end of a tick with
\* active_fires empty and a tick count above 20, at which step_sim calls
\* setRunning(false).
C22_StopIsReached ==
  <>(/\ last.op = "step_sim"
     /\ last.stop
     /\ Len(active_fires) = 0
     /\ stepCount > 20
     /\ ~running)

\* The stop raised at a tick beyond LiveCap, in a run that had a spontaneous
\* ignition and neighbour spread: more cells burnt than the cell initSim lit.
C22_Witness ==
  /\ last.op = "step_sim"
  /\ last.stop
  /\ last.folded
  /\ ~running
  /\ Len(active_fires) = 0
  /\ Cardinality({c \in Coords : grid[c].burnt}) >= 3
====
